---- MODULE Spec2Model ----
(***************************************************************************)
(* rcomp (src/modules/tools/src/compressor.rs): the gzip / tar+gzip        *)
(* compression tool.  One behaviour is a session of the tool on one        *)
(* filesystem: a first run of `rcomp compress` or `rcomp decompress`,      *)
(* followed by a run of `rcomp decompress`.  Each run is executed step by  *)
(* step, one action per filesystem call of the code.                       *)
(*                                                                         *)
(* Paths are sequences of components (<<"d", "a", "b.txt">> is d/a/b.txt,  *)
(* relative to the working directory <<>>).  File contents are sequences   *)
(* of blocks: a data byte, a gzip header, a gzip trailer, a tar header or  *)
(* the tar end-of-archive marker.                                          *)
(***************************************************************************)
EXTENDS Integers, Sequences, FiniteSets, TLC

VARIABLES
    fs,       \* the filesystem: path -> node
    cmd,      \* the command line of the current run
    pc,       \* the code position of the current run
    strategy, \* the branch taken at the dispatch of the current run
    err,      \* the first I/O error a step of the current run raised
    enc,      \* the GzEncoder of the current run
    walk,     \* compress_dir: the items the directory walk has yet to yield
    archive,  \* compress_dir: the in-memory tar stream built so far
    stream,   \* decompress_file: what the decoder has yet to deliver
    fs0,      \* history: the filesystem when the current run started
    prev      \* history: the previous run of the session

vars == <<fs, cmd, pc, strategy, err, enc, walk, archive, stream, fs0, prev>>

(***************************************************************************)
(* Bounds of the model and constants of the program.                       *)
(***************************************************************************)
MaxLen == 1        \* the input file holds at most MaxLen bytes
MaxLevelArg == 10  \* --level is given a number in 0..MaxLevelArg
MinLevel == 1      \* value_parser(1..=9)
MaxLevel == 9      \* value_parser(1..=9)
DefaultLevel == 6  \* default_value("6")

(***************************************************************************)
(* Blocks of a byte stream.                                                *)
(***************************************************************************)
Block(t, n, v) == [tag |-> t, name |-> n, val |-> v]
Byte(b) == Block("byte", <<>>, b)
GzHeader(level) == Block("gzhdr", <<>>, level)
GzTrailer(size) == Block("gztrl", <<>>, size)
TarHeader(path, size) == Block("tarhdr", path, size)
TarEnd == Block("tarend", <<>>, 0)

(***************************************************************************)
(* flate2: the gzip stream of a payload, and what a GzDecoder delivers     *)
(* from a byte stream: the payload and whether the stream ended well.      *)
(***************************************************************************)
GzEncode(level, data) == <<GzHeader(level)>> \o data \o <<GzTrailer(Len(data))>>

GzDecode(bytes) ==
    IF bytes = <<>> \/ bytes[1].tag # "gzhdr"
    THEN [data |-> <<>>, ok |-> FALSE]
    ELSE LET n == Len(bytes)
         IN  IF n >= 2 /\ bytes[n].tag = "gztrl" /\ bytes[n].val = n - 2
             THEN [data |-> SubSeq(bytes, 2, n - 1), ok |-> TRUE]
             ELSE [data |-> SubSeq(bytes, 2, n), ok |-> FALSE]

(***************************************************************************)
(* The filesystem.                                                         *)
(***************************************************************************)
Node(k, d, t) == [kind |-> k, data |-> d, target |-> t]
NoNode == Node("absent", <<>>, <<>>)
FileNode(data) == Node("file", data, <<>>)
DirNode == Node("dir", <<>>, <<>>)
NoAccessNode == Node("noaccess", <<>>, <<>>)  \* a directory that cannot be listed
SpecialNode == Node("special", <<>>, <<>>)    \* a character device
LinkNode(target) == Node("symlink", <<>>, target)

Parent(p) == SubSeq(p, 1, Len(p) - 1)
Prefixes(p) == {SubSeq(p, 1, i) : i \in 1..Len(p)}
IsPrefix(p, q) == Len(p) <= Len(q) /\ SubSeq(q, 1, Len(p)) = p

\* symlink_metadata: the node at p itself
Lstat(f, p) == IF p = <<>> THEN DirNode ELSE IF p \in DOMAIN f THEN f[p] ELSE NoNode
\* the path a system call on p acts on: a symbolic link is followed
Follow(f, p) == IF Lstat(f, p).kind = "symlink" THEN Lstat(f, p).target ELSE p
\* metadata: the node p resolves to
Stat(f, p) == LET n == Lstat(f, Follow(f, p))
              IN  IF n.kind = "symlink" THEN NoNode ELSE n

IsDirKind(k) == k \in {"dir", "noaccess"}
\* Path::is_dir, Path::is_file
is_dir(f, p) == IsDirKind(Stat(f, p).kind)
is_file(f, p) == Stat(f, p).kind = "file"

Put(f, p, node) == [q \in DOMAIN f \cup {p} |-> IF q = p THEN node ELSE f[q]]

\* File::open: a file, a device or a directory can be opened for reading
OpenOk(f, p) == Stat(f, p).kind \in {"file", "special", "dir"}
OpenError(f, p) == IF Stat(f, p).kind = "absent" THEN "NotFound" ELSE "IoError"
\* what reading the open file delivers
ReadOk(f, p) == Stat(f, p).kind \in {"file", "special"}
ReadAll(f, p) == Stat(f, p).data

\* File::create: creates or truncates the file the path resolves to
CanCreate(f, p) ==
    LET t == Follow(f, p)
    IN  /\ t # <<>>
        /\ IsDirKind(Stat(f, Parent(t)).kind)
        /\ Lstat(f, t).kind \in {"absent", "file", "special"}
Create(f, p) ==
    LET t == Follow(f, p)
    IN  IF Lstat(f, t).kind = "special" THEN f ELSE Put(f, t, FileNode(<<>>))
\* appending to the file an open handle names (a device swallows the bytes)
AppendTo(f, p, bytes) ==
    LET t == Follow(f, p)
    IN  IF Lstat(f, t).kind = "file" THEN Put(f, t, FileNode(f[t].data \o bytes)) ELSE f

\* fs::create_dir_all
CanMkdirAll(f, p) == \A q \in Prefixes(p) : Lstat(f, q).kind = "absent" \/ is_dir(f, q)
MkdirOne(f, p) == Put(f, p, DirNode)
MkdirAll(f, p) ==
    [q \in DOMAIN f \cup Prefixes(p) |-> IF q \in DOMAIN f THEN f[q] ELSE DirNode]

\* the path as the command line spells it
RECURSIVE PathStr(_)
PathStr(p) ==
    IF p = <<>> THEN "."
    ELSE IF Len(p) = 1 THEN p[1]
    ELSE PathStr(Parent(p)) \o "/" \o p[Len(p)]

\* str::ends_with
ends_with(s, suffix) ==
    Len(s) >= Len(suffix) /\ SubSeq(s, Len(s) - Len(suffix) + 1, Len(s)) = suffix

(***************************************************************************)
(* The session's filesystem and command lines.                             *)
(***************************************************************************)
ByteSeqs == UNION {[1..n -> {Byte(0), Byte(1)}] : n \in 0..MaxLen}

\* x.tar.gz and x.gz: one archive of one small file, under two names
SmallArchive == GzEncode(DefaultLevel, <<TarHeader(<<"s.txt">>, 1), Byte(3), TarEnd>>)
\* evil.tgz: an archive built by other means, with escaping entries
EvilArchive ==
    GzEncode(DefaultLevel,
             <<TarHeader(<<"ok.txt">>, 1), Byte(4),
               TarHeader(<<"..", "esc">>, 1), Byte(5),
               TarHeader(<<"/", "abs">>, 1), Byte(6),
               TarEnd>>)

InitialFs(data) ==
    (<<"f.txt">> :> FileNode(data)) @@
    (<<"dev">> :> SpecialNode) @@
    (<<"d">> :> DirNode) @@
    (<<"d", "a">> :> DirNode) @@
    (<<"d", "a", "b.txt">> :> FileNode(<<Byte(2)>>)) @@
    (<<"d", "a", "e.txt">> :> FileNode(<<Byte(7)>>)) @@
    (<<"d", "a", "u">> :> NoAccessNode) @@
    (<<"d", "c">> :> DirNode) @@
    (<<"d", "l">> :> LinkNode(<<"f.txt">>)) @@
    (<<"x.tar.gz">> :> FileNode(SmallArchive)) @@
    (<<"x.gz">> :> FileNode(SmallArchive)) @@
    (<<"evil.tgz">> :> FileNode(EvilArchive))

CompressInputs == {<<"f.txt">>, <<"d">>, <<"d", "a">>, <<"dev">>, <<"nx">>}
CompressOutputs ==
    {<<"a.gz">>, <<"a.tar.gz">>, <<"f.txt">>, <<"d", "o.tgz">>, <<"d", "a", "b.txt">>}
DecompressInputs ==
    {<<"a.gz">>, <<"a.tar.gz">>, <<"x.gz">>, <<"x.tar.gz">>, <<"evil.tgz">>, <<"f.txt">>}
DecompressOutputs == {<<"out">>, <<"n", "out">>, <<"d">>, <<"f.txt">>}
LevelArgs == 0..MaxLevelArg

NoCmd == [op |-> "none", input |-> <<>>, output |-> <<>>, level |-> 0]
NoEnc == [open |-> FALSE, level |-> 0, hdr |-> FALSE, buf |-> <<>>]
NoStream == [data |-> <<>>, ok |-> TRUE]
NoRun == [cmd |-> NoCmd, pc |-> "idle", strategy |-> "none", err |-> "none",
          fs0 |-> <<>>]

Init ==
    /\ \E data \in ByteSeqs : fs = InitialFs(data)
    /\ cmd = NoCmd
    /\ pc = "idle"
    /\ strategy = "none"
    /\ err = "none"
    /\ enc = NoEnc
    /\ walk = <<>>
    /\ archive = <<>>
    /\ stream = NoStream
    /\ fs0 = fs
    /\ prev = NoRun

Terminal == {"Complete", "Failed", "usage"}

\* a step that fails with `?`: the function returns the error.  The kinds:
\* NotFound and IoError (the path cannot be opened, created or made),
\* WriteError (the device refuses a write), CorruptStream (the decoder or the
\* archive reader rejects the bytes)
Fail(kind) ==
    /\ pc' = "Failed"
    /\ err' = kind

(***************************************************************************)
(* main: the `compress` subcommand.                                        *)
(***************************************************************************)
\* value_parser(1..=9)
LevelAcceptedNoLowerBound(level) == level <= MaxLevel
LevelAccepted(level) == level \in MinLevel..MaxLevel

MainCompress(input, output, level) ==
    /\ pc = "idle"
    /\ prev = NoRun
    /\ cmd' = [op |-> "compress", input |-> input, output |-> output, level |-> level]
    /\ fs0' = fs
    /\ IF LevelAccepted(level)
       THEN pc' = "compress_path" /\ err' = "none"
       ELSE pc' = "usage" /\ err' = "InvalidValue"
    /\ UNCHANGED <<fs, strategy, enc, walk, archive, stream, prev>>

(***************************************************************************)
(* compress_file                                                           *)
(***************************************************************************)
\* File::open(input)?; input_file.metadata()?
CompressFileOpen ==
    /\ pc = "cf_open"
    /\ IF OpenOk(fs, cmd.input)
       THEN pc' = "cf_create" /\ err' = err
       ELSE Fail(OpenError(fs, cmd.input))
    /\ UNCHANGED <<fs, cmd, strategy, enc, walk, archive, stream, fs0, prev>>

\* File::create(output)?; GzEncoder::new(output_file, Compression::new(level))
NewEncoder(level) == [open |-> TRUE, level |-> level, hdr |-> FALSE, buf |-> <<>>]

CompressFileCreate ==
    /\ pc = "cf_create"
    /\ IF CanCreate(fs, cmd.output)
       THEN /\ fs' = Create(fs, cmd.output)
            /\ enc' = NewEncoder(cmd.level)
            /\ pc' = "cf_copy"
            /\ err' = err
       ELSE /\ Fail("IoError")
            /\ UNCHANGED <<fs, enc>>
    /\ UNCHANGED <<cmd, strategy, walk, archive, stream, fs0, prev>>

\* GzEncoder::write: the header goes to the file at the first write, the
\* compressed payload stays in the encoder's buffer
EncoderWrite(e, bytes) == [e EXCEPT !.hdr = TRUE, !.buf = @ \o bytes]
\* what the encoder has yet to put into the file
EncoderRestNoTrailer(e) ==
    IF e.hdr THEN e.buf ELSE <<GzHeader(e.level)>> \o e.buf
EncoderRest(e) ==
    IF e.hdr THEN e.buf \o <<GzTrailer(Len(e.buf))>> ELSE GzEncode(e.level, e.buf)

\* io::copy(&mut reader, &mut encoder)?
CompressFileCopy ==
    /\ pc = "cf_copy"
    /\ IF ~ReadOk(fs, cmd.input)
       THEN Fail("IoError") /\ UNCHANGED <<fs, enc>>
       ELSE IF ReadAll(fs, cmd.input) = <<>>
       THEN pc' = "cf_finish" /\ UNCHANGED <<fs, enc, err>>
       ELSE \E written \in BOOLEAN :
                IF written
                THEN /\ fs' = AppendTo(fs, cmd.output, <<GzHeader(enc.level)>>)
                     /\ enc' = EncoderWrite(enc, ReadAll(fs, cmd.input))
                     /\ pc' = "cf_finish"
                     /\ err' = err
                ELSE Fail("WriteError") /\ UNCHANGED <<fs, enc>>
    /\ UNCHANGED <<cmd, strategy, walk, archive, stream, fs0, prev>>

\* fs::metadata(output)?; Ok(()); the encoder is dropped, and its Drop writes
\* the rest of the stream, ignoring a write error
EncoderDrop(written) ==
    /\ fs' = IF written THEN AppendTo(fs, cmd.output, EncoderRest(enc)) ELSE fs
    /\ enc' = [enc EXCEPT !.open = FALSE]
    /\ err' = IF written THEN err ELSE "WriteError"

CompressFileFinish ==
    /\ pc = "cf_finish"
    /\ \E written \in BOOLEAN : EncoderDrop(written)
    /\ pc' = "Complete"
    /\ UNCHANGED <<cmd, strategy, walk, archive, stream, fs0, prev>>

(***************************************************************************)
(* WalkDir::new(input): the root, then each directory's entries depth      *)
(* first, in the order the filesystem lists them.  A directory that cannot *)
(* be listed yields itself and then an error.  Links are not followed.     *)
(***************************************************************************)
WalkOk(p) == [path |-> p, ok |-> TRUE]
WalkErr(p) == [path |-> p, ok |-> FALSE]
Children(f, d) == {p \in DOMAIN f : Len(p) = Len(d) + 1 /\ Parent(p) = d}
Orders(S) == {o \in [1..Cardinality(S) -> S] : \A i, j \in DOMAIN o : o[i] = o[j] => i = j}

RECURSIVE Walks(_, _), WalksOf(_, _, _)
\* the walks of the subtree at p
Walks(f, p) ==
    IF Lstat(f, p).kind = "dir"
    THEN UNION {{<<WalkOk(p)>> \o w : w \in WalksOf(f, o, 1)} : o \in Orders(Children(f, p))}
    ELSE IF Lstat(f, p).kind = "noaccess"
    THEN {<<WalkOk(p), WalkErr(p)>>}
    ELSE {<<WalkOk(p)>>}
\* the walks of the subtrees at order[i], order[i + 1], ...
WalksOf(f, order, i) ==
    IF i > Len(order) THEN {<<>>}
    ELSE {w1 \o w2 : w1 \in Walks(f, order[i]), w2 \in WalksOf(f, order, i + 1)}

(***************************************************************************)
(* compress_path                                                           *)
(***************************************************************************)
CompressPath ==
    /\ pc = "compress_path"
    /\ IF is_dir(fs, cmd.input)
       THEN /\ strategy' = "Directory"
            /\ pc' = "cd_walk"
            /\ walk' \in Walks(fs, cmd.input)
       ELSE /\ strategy' = "File"
            /\ pc' = "cf_open"
            /\ walk' = walk
    /\ UNCHANGED <<fs, cmd, err, enc, archive, stream, fs0, prev>>

(***************************************************************************)
(* compress_dir                                                            *)
(***************************************************************************)
\* Path::strip_prefix
HasPrefix(path, base) == IsPrefix(base, path)
StripPrefixOneComponent(path, base) == Tail(path)
StripPrefix(path, base) == SubSeq(path, Len(base) + 1, Len(path))
\* tar::Builder: the path of an entry is relative and has no `..`
BuilderPathOk(rel) == rel # <<>> /\ rel[1] # "/" /\ \A i \in DOMAIN rel : rel[i] # ".."
\* tar::Builder::append_file: a header with the path and the size, then the bytes
AppendFile(ar, rel, data) == ar \o <<TarHeader(rel, Len(data))>> \o data

\* the filter of the loop: the entries that are archived
Accepted(f, item) == item.ok /\ is_file(f, item.path)

\* one turn of `for entry in WalkDir::new(input).into_iter().filter_map(|e| e.ok())`
CompressDirEntry ==
    /\ pc = "cd_walk"
    /\ walk # <<>>
    /\ walk' = Tail(walk)
    /\ LET item == Head(walk)
       IN  IF ~Accepted(fs, item)
           THEN UNCHANGED <<pc, err, archive>>
           ELSE IF ~HasPrefix(item.path, cmd.input)
           THEN pc' = "Panicked" /\ UNCHANGED <<err, archive>>
           ELSE IF ~OpenOk(fs, item.path) \/ ~BuilderPathOk(StripPrefix(item.path, cmd.input))
           THEN Fail("IoError") /\ UNCHANGED archive
           ELSE /\ archive' = AppendFile(archive, StripPrefix(item.path, cmd.input),
                                         ReadAll(fs, item.path))
                /\ UNCHANGED <<pc, err>>
    /\ UNCHANGED <<fs, cmd, strategy, enc, stream, fs0, prev>>

\* archive.into_inner()?; File::create(output)?; GzEncoder::new(..)
CompressDirCreate ==
    /\ pc = "cd_walk"
    /\ walk = <<>>
    /\ archive' = archive \o <<TarEnd>>
    /\ IF CanCreate(fs, cmd.output)
       THEN /\ fs' = Create(fs, cmd.output)
            /\ enc' = NewEncoder(cmd.level)
            /\ pc' = "cd_write"
            /\ err' = err
       ELSE /\ Fail("IoError")
            /\ UNCHANGED <<fs, enc>>
    /\ UNCHANGED <<cmd, strategy, walk, stream, fs0, prev>>

\* encoder.write_all(&tar_bytes)?
CompressDirWrite ==
    /\ pc = "cd_write"
    /\ \E written \in BOOLEAN :
           IF written
           THEN /\ fs' = AppendTo(fs, cmd.output, <<GzHeader(enc.level)>>)
                /\ enc' = EncoderWrite(enc, archive)
                /\ pc' = "cd_finish"
                /\ err' = err
           ELSE Fail("WriteError") /\ UNCHANGED <<fs, enc>>
    /\ UNCHANGED <<cmd, strategy, walk, archive, stream, fs0, prev>>

\* Ok(()); the encoder is dropped
CompressDirFinish ==
    /\ pc = "cd_finish"
    /\ \E written \in BOOLEAN : EncoderDrop(written)
    /\ pc' = "Complete"
    /\ UNCHANGED <<cmd, strategy, walk, archive, stream, fs0, prev>>

(***************************************************************************)
(* main: the `decompress` subcommand, and decompress_file                  *)
(***************************************************************************)
MainDecompress(input, output) ==
    /\ pc = "idle"
    /\ cmd' = [op |-> "decompress", input |-> input, output |-> output, level |-> 0]
    /\ fs0' = fs
    /\ pc' = "decompress_file"
    /\ err' = "none"
    /\ UNCHANGED <<fs, strategy, enc, walk, archive, stream, prev>>

\* File::open(input)?; input_file.metadata()?; GzDecoder::new(input_file):
\* the decoder fills its buffer from the file and parses the header
DecompressOpen ==
    /\ pc = "decompress_file"
    /\ IF OpenOk(fs, cmd.input)
       THEN /\ stream' = IF ReadOk(fs, cmd.input)
                         THEN GzDecode(ReadAll(fs, cmd.input))
                         ELSE [data |-> <<>>, ok |-> FALSE]
            /\ pc' = "detect"
            /\ err' = err
       ELSE /\ Fail(OpenError(fs, cmd.input))
            /\ UNCHANGED stream
    /\ UNCHANGED <<fs, cmd, strategy, enc, walk, archive, fs0, prev>>

\* input.ends_with(".tar.gz") || input.ends_with(".tgz")
IsContainerNameTarGzOnly(name) == ends_with(name, ".tar.gz")
IsContainerName(name) == ends_with(name, ".tar.gz") \/ ends_with(name, ".tgz")
Detect(name) == IF IsContainerName(name) THEN "ContainerArchive" ELSE "PlainFile"

DecompressDetect ==
    /\ pc = "detect"
    /\ strategy' = Detect(PathStr(cmd.input))
    /\ pc' = IF strategy' = "ContainerArchive" THEN "df_mkdir" ELSE "df_create"
    /\ UNCHANGED <<fs, cmd, err, enc, walk, archive, stream, fs0, prev>>

\* fs::create_dir_all(output)?
DecompressMkdir ==
    /\ pc = "df_mkdir"
    /\ IF CanMkdirAll(fs, cmd.output)
       THEN fs' = MkdirAll(fs, cmd.output) /\ pc' = "df_unpack" /\ err' = err
       ELSE Fail("IoError") /\ fs' = fs
    /\ UNCHANGED <<cmd, strategy, enc, walk, archive, stream, fs0, prev>>

(***************************************************************************)
(* tar::Archive::unpack: the entries in stored order.                      *)
(***************************************************************************)
\* where an entry goes: `/` and `.` components are dropped
RECURSIVE NormalPart(_)
NormalPart(rel) ==
    IF rel = <<>> THEN <<>>
    ELSE IF Head(rel) \in {"/", "."} THEN NormalPart(Tail(rel))
    ELSE <<Head(rel)>> \o NormalPart(Tail(rel))
UnpackTarget(dst, rel) == dst \o NormalPart(rel)
\* an entry with a `..` component, or naming the destination itself, is skipped
UnpackSkipped(rel) == (\E i \in DOMAIN rel : rel[i] = "..") \/ NormalPart(rel) = <<>>
\* the parent directories can be made and no directory is in the file's place
CanUnpack(f, t) == CanMkdirAll(f, Parent(t)) /\ ~IsDirKind(Lstat(f, t).kind)
\* the file is removed if it exists and created anew
UnpackFileEmpty(f, t, data) == Put(MkdirAll(f, Parent(t)), t, FileNode(<<>>))
UnpackFile(f, t, data) == Put(MkdirAll(f, Parent(t)), t, FileNode(data))

\* archive.unpack(output)?: one entry of the archive
DecompressUnpackEntry ==
    /\ pc = "df_unpack"
    /\ LET s == stream.data
       IN  IF s = <<>>
           THEN \* the end of the stream
                /\ IF stream.ok THEN pc' = "Complete" /\ err' = err
                   ELSE Fail("CorruptStream")
                /\ UNCHANGED <<fs, stream>>
           ELSE IF Head(s).tag = "tarend"
           THEN pc' = "Complete" /\ UNCHANGED <<fs, stream, err>>
           ELSE IF Head(s).tag # "tarhdr" \/ Len(s) < 1 + Head(s).val
           THEN Fail("CorruptStream") /\ UNCHANGED <<fs, stream>>
           ELSE LET rel == Head(s).name
                    data == SubSeq(s, 2, 1 + Head(s).val)
                    rest == SubSeq(s, 2 + Head(s).val, Len(s))
                    t == UnpackTarget(cmd.output, rel)
                IN  IF UnpackSkipped(rel)
                    THEN stream' = [stream EXCEPT !.data = rest] /\ UNCHANGED <<fs, pc, err>>
                    ELSE IF ~CanUnpack(fs, t)
                    THEN Fail("IoError") /\ UNCHANGED <<fs, stream>>
                    ELSE \E written \in BOOLEAN :
                             IF written
                             THEN /\ fs' = UnpackFile(fs, t, data)
                                  /\ stream' = [stream EXCEPT !.data = rest]
                                  /\ UNCHANGED <<pc, err>>
                             ELSE /\ fs' = UnpackFile(fs, t, <<>>)
                                  /\ Fail("WriteError")
                                  /\ UNCHANGED stream
    /\ UNCHANGED <<cmd, strategy, enc, walk, archive, fs0, prev>>

\* File::create(output)?
DecompressCreate ==
    /\ pc = "df_create"
    /\ IF CanCreate(fs, cmd.output)
       THEN fs' = Create(fs, cmd.output) /\ pc' = "df_copy" /\ err' = err
       ELSE Fail("IoError") /\ fs' = fs
    /\ UNCHANGED <<cmd, strategy, enc, walk, archive, stream, fs0, prev>>

\* io::copy(&mut pb.wrap_read(decoder), &mut output_file)?
DecompressCopy ==
    /\ pc = "df_copy"
    /\ \E written \in BOOLEAN :
           IF written
           THEN /\ fs' = AppendTo(fs, cmd.output, stream.data)
                /\ IF stream.ok THEN pc' = "Complete" /\ err' = err
                   ELSE Fail("CorruptStream")
           ELSE Fail("WriteError") /\ fs' = fs
    /\ stream' = [stream EXCEPT !.data = <<>>]
    /\ UNCHANGED <<cmd, strategy, enc, walk, archive, fs0, prev>>

(***************************************************************************)
(* The process exits; the next run of the session starts from the          *)
(* filesystem it left.                                                     *)
(***************************************************************************)
Exit ==
    /\ pc \in Terminal
    /\ prev = NoRun
    /\ prev' = [cmd |-> cmd, pc |-> pc, strategy |-> strategy, err |-> err, fs0 |-> fs0]
    /\ cmd' = NoCmd
    /\ pc' = "idle"
    /\ strategy' = "none"
    /\ err' = "none"
    /\ enc' = NoEnc
    /\ walk' = <<>>
    /\ archive' = <<>>
    /\ stream' = NoStream
    /\ fs0' = fs
    /\ fs' = fs

Next ==
    \/ \E i \in CompressInputs, o \in CompressOutputs, l \in LevelArgs : MainCompress(i, o, l)
    \/ CompressPath
    \/ CompressFileOpen
    \/ CompressFileCreate
    \/ CompressFileCopy
    \/ CompressFileFinish
    \/ CompressDirEntry
    \/ CompressDirCreate
    \/ CompressDirWrite
    \/ CompressDirFinish
    \/ \E i \in DecompressInputs, o \in DecompressOutputs : MainDecompress(i, o)
    \/ DecompressOpen
    \/ DecompressDetect
    \/ DecompressMkdir
    \/ DecompressUnpackEntry
    \/ DecompressCreate
    \/ DecompressCopy
    \/ Exit

Spec == Init /\ [][Next]_vars

(***************************************************************************)
(* Properties.                                                             *)
(***************************************************************************)
Finished == pc \in Terminal
\* the run before was a compress run that returned Ok, no write having failed,
\* and this run decompresses its output
AfterCompress(strat) ==
    /\ prev.cmd.op = "compress"
    /\ prev.strategy = strat
    /\ prev.pc = "Complete"
    /\ prev.err = "none"
    /\ cmd.op = "decompress"
    /\ cmd.input = prev.cmd.output
\* the regular files under root: relative path and bytes
FilesUnder(f, root) ==
    {[rel |-> StripPrefix(p, root), data |-> f[p].data] :
        p \in {q \in DOMAIN f : IsPrefix(root, q) /\ q # root /\ f[q].kind = "file"}}
\* the nodes under root that are neither regular files nor directories
OddUnder(f, root) ==
    {q \in DOMAIN f : IsPrefix(root, q) /\ q # root /\ f[q].kind \notin {"file", "dir"}}

\* C1 (as claimed): for every regular file F, every level in 1..9 and any
\* artifact path out, compress_path(F, out, L) followed by
\* decompress_file(out, dst) succeeds and leaves dst with the bytes of F.
\* Stated for an artifact path other than F, a destination that does not exist
\* yet and writes that do not fail.
C1_RoundTripAnyOut ==
    (/\ AfterCompress("File")
     /\ is_file(prev.fs0, prev.cmd.input)
     /\ Follow(prev.fs0, prev.cmd.output) # Follow(prev.fs0, prev.cmd.input)
     /\ Lstat(fs0, cmd.output).kind = "absent"
     /\ CanCreate(fs0, cmd.output)
     /\ Finished
     /\ err # "WriteError")
    => /\ pc = "Complete"
       /\ Lstat(fs, cmd.output) = FileNode(Stat(prev.fs0, prev.cmd.input).data)

\* C1 (amended): the same, for an artifact path whose name does not end in
\* .tar.gz or .tgz, and for every destination that can be created (a new file
\* or an existing one).
C1_RoundTrip ==
    (/\ AfterCompress("File")
     /\ is_file(prev.fs0, prev.cmd.input)
     /\ Follow(prev.fs0, prev.cmd.output) # Follow(prev.fs0, prev.cmd.input)
     /\ \A k \in 0..Len(PathStr(prev.cmd.output)) :
            /\ SubSeq(PathStr(prev.cmd.output), 1, k) \o ".tar.gz" # PathStr(prev.cmd.output)
            /\ SubSeq(PathStr(prev.cmd.output), 1, k) \o ".tgz" # PathStr(prev.cmd.output)
     /\ CanCreate(fs0, cmd.output)
     /\ Finished
     /\ err # "WriteError")
    => /\ pc = "Complete"
       /\ Lstat(fs, cmd.output) = FileNode(Stat(prev.fs0, prev.cmd.input).data)

C1_Witness ==
    /\ AfterCompress("File")
    /\ prev.cmd.input = <<"f.txt">>
    /\ prev.cmd.output = <<"a.gz">>
    /\ prev.cmd.level = MaxLevel
    /\ Stat(prev.fs0, <<"f.txt">>).data # <<>>
    /\ cmd.output = <<"out">>
    /\ pc = "Complete"
    /\ Lstat(fs, <<"out">>) = Stat(prev.fs0, <<"f.txt">>)

\* the 0-byte file at level 1
C1_WitnessEmpty ==
    /\ AfterCompress("File")
    /\ prev.cmd.level = MinLevel
    /\ Stat(prev.fs0, prev.cmd.input) = FileNode(<<>>)
    /\ pc = "Complete"
    /\ Lstat(fs, cmd.output) = FileNode(<<>>)

\* the name ends in a container suffix: some prefix of it followed by the suffix
EndsInContainerSuffix(name) ==
    \E k \in 0..Len(name) :
        \/ SubSeq(name, 1, k) \o ".tar.gz" = name
        \/ SubSeq(name, 1, k) \o ".tgz" = name

\* C2: for every directory D, compress_path(D, out, L) followed by
\* decompress_file(out, dest) produces under dest exactly the relative paths
\* of the regular files of D, each with its bytes, and no other files.
\* Stated for an artifact with a container name, a destination that does not
\* exist yet and writes that do not fail.
C2_DirRoundTrip ==
    (/\ AfterCompress("Directory")
     /\ EndsInContainerSuffix(PathStr(cmd.input))
     /\ Lstat(fs0, cmd.output).kind = "absent"
     /\ Finished
     /\ err # "WriteError")
    => /\ pc = "Complete"
       /\ FilesUnder(fs, cmd.output) = FilesUnder(prev.fs0, prev.cmd.input)
       /\ OddUnder(fs, cmd.output) = {}

\* the entry paths of a tar stream
TarNames(blocks) == {blocks[i].name : i \in {j \in DOMAIN blocks : blocks[j].tag = "tarhdr"}}
Escaping(rel) == rel # <<>> /\ (rel[1] = "/" \/ \E i \in DOMAIN rel : rel[i] = "..")
\* the archive this run was given
GivenArchive == GzDecode(ReadAll(fs0, cmd.input)).data

\* C3: extraction of a container archive with an entry whose path has a `..`
\* component or is absolute fails with PathTraversal and writes no file.
\* Stated for a destination that does not exist yet and writes that do not
\* fail.
C3_TraversalRejected ==
    (/\ cmd.op = "decompress"
     /\ strategy = "ContainerArchive"
     /\ \E rel \in TarNames(GivenArchive) : Escaping(rel)
     /\ Lstat(fs0, cmd.output).kind = "absent"
     /\ err # "WriteError")
    => /\ pc # "Complete"
       /\ Finished => err = "PathTraversal"
       /\ \A p \in DOMAIN fs :
              fs[p].kind = "file" => p \in DOMAIN fs0 /\ fs0[p] = fs[p]

\* C4: on the decompression path the format is a function of the input name
\* alone: ContainerArchive exactly when the name ends in .tar.gz or .tgz,
\* PlainFile for every other name; once the input is open, detection gives one
\* of the two and the run goes on in that branch.
C4_DetectBySuffix ==
    cmd.op = "decompress" =>
        /\ strategy # "none" =>
               strategy = IF EndsInContainerSuffix(PathStr(cmd.input))
                          THEN "ContainerArchive" ELSE "PlainFile"
        /\ pc \in {"df_mkdir", "df_unpack"} => strategy = "ContainerArchive"
        /\ pc \in {"df_create", "df_copy"} => strategy = "PlainFile"
        /\ strategy = "none" =>
               \/ pc \in {"decompress_file", "detect"}
               \/ pc = "Failed" /\ ~OpenOk(fs0, cmd.input)

\* an archive's bytes under a plain name, after an earlier run: PlainFile;
\* the same bytes were classified ContainerArchive under the name x.tar.gz
C4_Witness ==
    /\ prev.cmd.op = "decompress"
    /\ prev.cmd.input = <<"x.tar.gz">>
    /\ prev.strategy = "ContainerArchive"
    /\ cmd.input = <<"x.gz">>
    /\ ReadAll(fs0, <<"x.gz">>) = ReadAll(prev.fs0, <<"x.tar.gz">>)
    /\ strategy = "PlainFile"

\* C5: classification gives Directory for a directory and File for a regular
\* file, fails with NotFound for a path that does not exist and with
\* Unsupported for one that is neither; no strategy is started for a path that
\* is not a regular file or a directory.
C5_Classification ==
    (cmd.op = "compress" /\ pc # "usage") =>
        /\ strategy = "Directory" => is_dir(fs0, cmd.input)
        /\ strategy = "File" => is_file(fs0, cmd.input)
        /\ (Finished /\ Stat(fs0, cmd.input).kind = "absent") => err = "NotFound"
        /\ (Finished /\ Stat(fs0, cmd.input).kind = "special") => err = "Unsupported"

\* C6: the first failing step of a run moves it to Failed and the error is
\* returned to the caller; Complete is never reached after an error.  Stated
\* of the runs whose input is not a device and whose output is another path.
C6_ErrorsAreTerminal ==
    (Stat(fs0, cmd.input).kind # "special" /\ cmd.output # cmd.input) =>
        /\ pc = "Complete" => err = "none"
        /\ err # "none" => pc \in {"Failed", "usage"}

\* C7: the level handed to the encoder is always in 1..9, and it is the level
\* of the command line, not a clamped one; a level out of range ends the run
\* as a usage error before any path is looked at.
C7_LevelValidated ==
    /\ enc.open => enc.level \in MinLevel..MaxLevel /\ enc.level = cmd.level
    /\ (cmd.op = "compress" /\ cmd.level \notin MinLevel..MaxLevel) =>
           /\ pc = "usage"
           /\ err = "InvalidValue"
           /\ strategy = "none"
           /\ ~enc.open
           /\ fs = fs0

C7_Witness ==
    /\ enc.open
    /\ enc.level = MaxLevel
    /\ strategy = "Directory"

\* a gzip payload that is a container of one small file
OneFileArchive(blocks) ==
    /\ Len(blocks) >= 2
    /\ blocks[1].tag = "tarhdr"
    /\ Len(blocks) = blocks[1].val + 2
    /\ blocks[Len(blocks)].tag = "tarend"
    /\ Len(blocks[1].name) = 1
    /\ blocks[1].name[1] \notin {"/", ".", ".."}

C9_OnlyRegularFiles ==
    (cmd.op = "compress" /\ strategy = "Directory") =>
        /\ TarNames(archive) \subseteq {e.rel : e \in FilesUnder(fs0, cmd.input)}
        /\ (pc = "cd_walk" /\ walk = <<>>) =>
               TarNames(archive) = {e.rel : e \in FilesUnder(fs0, cmd.input)}
        /\ pc # "Failed"

\* byte order of file names
Alphabet == "-./0123456789_abcdefghijklmnopqrstuvwxyz"
CharRank(c) == CHOOSE i \in 1..Len(Alphabet) : SubSeq(Alphabet, i, i) = c
RECURSIVE StrLess(_, _)
StrLess(s, t) ==
    IF t = "" THEN FALSE
    ELSE IF s = "" THEN TRUE
    ELSE LET a == CharRank(SubSeq(s, 1, 1))
             b == CharRank(SubSeq(t, 1, 1))
         IN  a < b \/ (a = b /\ StrLess(SubSeq(s, 2, Len(s)), SubSeq(t, 2, Len(t))))
\* depth first, each directory's entries in lexical order
RECURSIVE PathLess(_, _)
PathLess(p, q) ==
    IF q = <<>> THEN FALSE
    ELSE IF p = <<>> THEN TRUE
    ELSE StrLess(p[1], q[1]) \/ (p[1] = q[1] /\ PathLess(Tail(p), Tail(q)))

\* C10: archive entries are emitted in lexical order within each directory,
\* depth first, whatever order the filesystem lists the entries in.  Stated of
\* the entries that are regular files.
C10_LexicalOrder ==
    (cmd.op = "compress" /\ strategy = "Directory") =>
        LET regular(b) == b.tag = "tarhdr" /\ Lstat(fs0, cmd.input \o b.name).kind = "file"
            names == SelectSeq(archive, regular)
        IN  \A i, j \in DOMAIN names : i < j => PathLess(names[i].name, names[j].name)

\* C11: every entry the archive builder has appended carries a path relative
\* to the input directory (joined to the input it names the walked file), not
\* empty, with no `..` component and not absolute, whatever directory the
\* input is; stripping the prefix never fails (the unwrap never panics).
C11_EntriesRelative ==
    /\ pc # "Panicked"
    /\ (cmd.op = "compress" /\ strategy = "Directory") =>
           \A rel \in TarNames(archive) :
               /\ rel # <<>>
               /\ ~Escaping(rel)
               /\ cmd.input \o rel \in DOMAIN fs0
               /\ Lstat(fs0, cmd.input \o rel).kind \notin {"absent", "dir", "noaccess"}

\* the input is the nested directory d/a: both components are stripped
C11_Witness ==
    /\ cmd.op = "compress"
    /\ cmd.input = <<"d", "a">>
    /\ strategy = "Directory"
    /\ TarNames(archive) = {<<"b.txt">>, <<"e.txt">>}
    /\ pc = "Complete"

\* the entries of a tar stream in stored order: path and bytes
RECURSIVE TarEntries(_)
TarEntries(s) ==
    IF s = <<>> \/ Head(s).tag # "tarhdr" \/ Len(s) < 1 + Head(s).val
    THEN <<>>
    ELSE <<[name |-> Head(s).name, data |-> SubSeq(s, 2, 1 + Head(s).val)]>>
         \o TarEntries(SubSeq(s, 2 + Head(s).val, Len(s)))
\* the entries of the given archive, and how many of them unpack is done with
GivenEntries == TarEntries(GivenArchive)
EntriesDone == Len(GivenEntries) - Len(TarEntries(stream.data))
EntryTarget(j) == UnpackTarget(cmd.output, GivenEntries[j].name)
\* the entries unpack has put a hand on: those done and, after a failure,
\* the one that failed
EntriesTouched ==
    {j \in 1..Len(GivenEntries) : j <= EntriesDone \/ (pc = "Failed" /\ j = EntriesDone + 1)}

\* C12: container extraction makes the destination directory first, then
\* writes the entries in stored order.  When an entry fails the run returns
\* the error; every entry written before it is on disk with its full
\* contents, no entry after it is written, and nothing that was there is
\* deleted or rolled back.  Stated of the entries unpack writes (it passes
\* over an entry with a `..` component).
C12_PartialExtraction ==
    (cmd.op = "decompress" /\ strategy = "ContainerArchive") =>
        /\ pc \in {"df_unpack", "Complete"} => Lstat(fs, cmd.output).kind = "dir"
        /\ EntriesDone > 0 => Lstat(fs, cmd.output).kind = "dir"
        /\ \A j \in 1..EntriesDone :
               ~UnpackSkipped(GivenEntries[j].name) =>
                   Lstat(fs, EntryTarget(j)) = FileNode(GivenEntries[j].data)
        /\ \A j \in 1..Len(GivenEntries) :
               j \notin EntriesTouched => Lstat(fs, EntryTarget(j)) = Lstat(fs0, EntryTarget(j))
        /\ \A p \in DOMAIN fs0 :
               (\A j \in EntriesTouched : EntryTarget(j) # p) =>
                   p \in DOMAIN fs /\ fs[p] = fs0[p]
        /\ err # "none" => pc = "Failed"
        /\ pc = "Complete" => EntriesDone = Len(GivenEntries)

\* the write of the second of three entries failed: the first is on disk in
\* full, the third was not written
C12_Witness ==
    /\ cmd.op = "decompress"
    /\ strategy = "ContainerArchive"
    /\ pc = "Failed"
    /\ err = "WriteError"
    /\ Len(GivenEntries) = 3
    /\ EntriesDone = 1
    /\ Lstat(fs0, EntryTarget(1)).kind = "absent"
    /\ Lstat(fs, EntryTarget(1)) = FileNode(GivenEntries[1].data)
    /\ GivenEntries[1].data # <<>>
    /\ Lstat(fs, EntryTarget(3)).kind = "absent"

\* C13: compression never changes its input.  When compress_path returns, Ok
\* or Err, the input file has the bytes it had before the call, and so has
\* every regular file under the input directory; for every output path, the
\* input path itself and a path inside the input directory included.
C13_InputUnchanged ==
    (cmd.op = "compress" /\ Finished) =>
        /\ is_file(fs0, cmd.input) => Stat(fs, cmd.input) = Stat(fs0, cmd.input)
        /\ is_dir(fs0, cmd.input) =>
               \A p \in DOMAIN fs0 :
                   (IsPrefix(cmd.input, p) /\ fs0[p].kind = "file") =>
                       p \in DOMAIN fs /\ fs[p] = fs0[p]

====
